---- MODULE Spec2Model ----
(***************************************************************************)
(* The interactive console session of stomp/cli.py: the command loop of    *)
(* main(), the command handlers of StompCLI, the asynchronous event        *)
(* callbacks that print through __print_async, and the connection that     *)
(* the handlers call into.                                                 *)
(*                                                                         *)
(* Text is modelled as sequences of one-character strings, so that         *)
(* str.strip, str.split, str.startswith and ' '.join are computed the way  *)
(* Python computes them.                                                   *)
(***************************************************************************)
EXTENDS Integers, Sequences, FiniteSets, TLC

\* ------------------------------------------------------------------ bounds
\* Number of distinct transaction tokens the connection's begin can hand out.
MaxTokens == 2
\* Largest number of headers an inbound frame carries.
MaxHeaders == 1
\* Number of most recent console writes the model keeps (the scrollback).
MaxConsole == 2
\* Last second the clock reaches.
MaxClock == 2
\* Longest content of the file the operator sends.
MaxBytes == 3

\* ------------------------------------------------------------------ text
w_abort == <<"a","b","o","r","t">>
w_ack == <<"a","c","k">>
w_begin == <<"b","e","g","i","n">>
w_commit == <<"c","o","m","m","i","t">>
w_disconnect == <<"d","i","s","c","o","n","n","e","c","t">>
w_help == <<"h","e","l","p">>
w_man == <<"m","a","n">>
w_send == <<"s","e","n","d">>
w_sendfile == <<"s","e","n","d","f","i","l","e">>
w_stats == <<"s","t","a","t","s">>
w_subscribe == <<"s","u","b","s","c","r","i","b","e">>
w_unsubscribe == <<"u","n","s","u","b","s","c","r","i","b","e">>
w_ver == <<"v","e","r">>
w_version == <<"v","e","r","s","i","o","n">>
w_quit == <<"q","u","i","t">>
w_on == <<"o","n">>
w_off == <<"o","f","f">>
w_auto == <<"a","u","t","o">>
w_client == <<"c","l","i","e","n","t">>
w_underscore == <<"_">>
w_on_prefix == <<"o","n","_">>
w_c == <<"c">>
w_dot == <<".">>
w_TWE_pad == <<"T","W","E","=">>
w_TWE == <<"T","W","E">>
w_on_message == <<"o","n","_","m","e","s","s","a","g","e">>
w_quitx == <<"q","u","i","t","x">>
w_frob == <<"f","r","o","b">>
w_now == <<"n","o","w">>
w_dest == <<"/","q">>
w_hi == <<"h","i">>
w_yo == <<"y","o">>
w_m1 == <<"m","1">>
w_file == <<"f",".","b">>
w_nofile == <<"n","o">>
w_bad == <<"m","a","y","b","e">>

IsSpace(c) == c \in {" ", "\t"}

\* str.startswith
StartsWith(s, p) == Len(s) >= Len(p) /\ SubSeq(s, 1, Len(p)) = p

RECURSIVE lstrip(_)
lstrip(s) == IF s # <<>> /\ IsSpace(Head(s)) THEN lstrip(Tail(s)) ELSE s

RECURSIVE rstrip(_)
rstrip(s) ==
    IF s # <<>> /\ IsSpace(s[Len(s)]) THEN rstrip(SubSeq(s, 1, Len(s) - 1)) ELSE s

\* str.split() with no separator: runs of whitespace separate the tokens and
\* no token is empty.  cur is the token being read.
RECURSIVE SplitFrom(_, _)
SplitFrom(s, cur) ==
    IF s = <<>> THEN (IF cur = <<>> THEN <<>> ELSE <<cur>>)
    ELSE IF IsSpace(Head(s))
         THEN (IF cur = <<>> THEN <<>> ELSE <<cur>>) \o SplitFrom(Tail(s), <<>>)
         ELSE SplitFrom(Tail(s), Append(cur, Head(s)))

str_split(s) == SplitFrom(s, <<>>)

\* ' '.join(words)
RECURSIVE join(_)
join(ws) ==
    IF ws = <<>> THEN <<>>
    ELSE IF Len(ws) = 1 THEN ws[1]
    ELSE ws[1] \o <<" ">> \o join(Tail(ws))

\* args[n:] of Python, n counted from 0
SliceFrom(args, n) == SubSeq(args, n + 1, Len(args))

\* '%s' % n for a natural number n: its decimal digits.
DecimalDigits == <<"0","1","2","3","4","5","6","7","8","9">>

RECURSIVE Digits(_)
Digits(n) ==
    IF n < 10 THEN <<DecimalDigits[n + 1]>>
    ELSE Digits(n \div 10) \o <<DecimalDigits[(n % 10) + 1]>>

\* ------------------------------------------------------------------ base64
B64Alphabet == <<"A","B","C","D","E","F","G","H","I","J","K","L","M","N","O","P","Q","R","S","T","U","V","W","X","Y","Z","a","b","c","d","e","f",
                 "g","h","i","j","k","l","m","n","o","p","q","r","s","t","u","v","w","x","y","z","0","1","2","3","4","5","6","7","8","9","+","/">>

B64Char(i) == B64Alphabet[i + 1]

\* The encoding without the '=' that fill the last group.
RECURSIVE b64encode_nopad(_)
b64encode_nopad(s) ==
    IF s = <<>> THEN <<>>
    ELSE IF Len(s) = 1 THEN
        LET n == s[1] * 16
        IN  <<B64Char(n \div 64), B64Char(n % 64)>>
    ELSE IF Len(s) = 2 THEN
        LET n == (s[1] * 256 + s[2]) * 4
        IN  <<B64Char(n \div 4096), B64Char((n \div 64) % 64), B64Char(n % 64)>>
    ELSE
        LET n == s[1] * 65536 + s[2] * 256 + s[3]
        IN  <<B64Char(n \div 262144), B64Char((n \div 4096) % 64),
              B64Char((n \div 64) % 64), B64Char(n % 64)>>
            \o b64encode_nopad(SubSeq(s, 4, Len(s)))

\* base64.b64encode(s).decode(): three bytes make four characters, a last
\* group of one or two bytes is padded with '='.
RECURSIVE b64encode(_)
b64encode(s) ==
    IF s = <<>> THEN <<>>
    ELSE IF Len(s) = 1 THEN
        LET n == s[1] * 16
        IN  <<B64Char(n \div 64), B64Char(n % 64), "=", "=">>
    ELSE IF Len(s) = 2 THEN
        LET n == (s[1] * 256 + s[2]) * 4
        IN  <<B64Char(n \div 4096), B64Char((n \div 64) % 64), B64Char(n % 64), "=">>
    ELSE
        LET n == s[1] * 65536 + s[2] * 256 + s[3]
        IN  <<B64Char(n \div 262144), B64Char((n \div 4096) % 64),
              B64Char((n \div 64) % 64), B64Char(n % 64)>>
            \o b64encode(SubSeq(s, 4, Len(s)))

\* The position of character c in the alphabet, -1 when it is not in it.
B64Index(c) ==
    IF \E i \in 1..64 : B64Alphabet[i] = c
    THEN (CHOOSE i \in 1..64 : B64Alphabet[i] = c) - 1
    ELSE -1

\* The first character of s at or after position j that is of the alphabet or
\* is '=', "" when there is none.
RECURSIVE NextValid(_, _)
NextValid(s, j) ==
    IF j > Len(s) THEN ""
    ELSE IF s[j] = "=" \/ B64Index(s[j]) # -1 THEN s[j]
    ELSE NextValid(s, j + 1)

Pow2(n) == IF n = 0 THEN 1 ELSE IF n = 2 THEN 4 ELSE IF n = 4 THEN 16 ELSE 64

\* The decoder's loop from position i on: quad_pos counts the characters of the
\* current group of four, leftchar holds the leftbits bits not yet output.
\* Characters outside the alphabet are skipped; '=' ends the input once the
\* group holds three characters, or two and another '=' follows; bits left
\* over at the end are an error.
RECURSIVE Decode(_, _, _, _, _, _)
Decode(s, i, quad_pos, leftchar, leftbits, bin) ==
    IF i > Len(s)
    THEN [ok |-> leftbits = 0, bytes |-> bin]
    ELSE IF s[i] = "="
    THEN IF quad_pos < 2 \/ (quad_pos = 2 /\ NextValid(s, i + 1) # "=")
         THEN Decode(s, i + 1, quad_pos, leftchar, leftbits, bin)
         ELSE [ok |-> TRUE, bytes |-> bin]
    ELSE IF B64Index(s[i]) = -1
    THEN Decode(s, i + 1, quad_pos, leftchar, leftbits, bin)
    ELSE LET q == (quad_pos + 1) % 4
             c == leftchar * 64 + B64Index(s[i])
             b == leftbits + 6
         IN  IF b >= 8
             THEN Decode(s, i + 1, q, c % Pow2(b - 8), b - 8,
                         Append(bin, (c \div Pow2(b - 8)) % 256))
             ELSE Decode(s, i + 1, q, c, b, bin)

\* base64.b64decode(body.encode()): the bytes, or binascii.Error (ok = FALSE).
b64decode(body) == Decode(body, 1, 0, 0, 0, <<>>)

\* ------------------------------------------------------------------ catalog
\* dir(StompCLI): the attribute names of the class, sorted.
ClassDir == <<
    <<"_","S","t","o","m","p","C","L","I","_","_","p","r","i","n","t","_","a","s","y","n","c">>,
    <<"_","_","i","n","i","t","_","_">>,
    <<"a","b","o","r","t">>,
    <<"a","c","k">>,
    <<"b","e","g","i","n">>,
    <<"c","o","m","m","i","t">>,
    <<"d","i","s","c","o","n","n","e","c","t">>,
    <<"h","e","l","p">>,
    <<"m","a","n">>,
    <<"o","n","_","c","o","n","n","e","c","t","e","d">>,
    <<"o","n","_","c","o","n","n","e","c","t","i","n","g">>,
    <<"o","n","_","d","i","s","c","o","n","n","e","c","t","e","d">>,
    <<"o","n","_","e","r","r","o","r">>,
    <<"o","n","_","m","e","s","s","a","g","e">>,
    <<"o","n","_","r","e","c","e","i","p","t">>,
    <<"s","e","n","d">>,
    <<"s","e","n","d","f","i","l","e">>,
    <<"s","t","a","t","s">>,
    <<"s","u","b","s","c","r","i","b","e">>,
    <<"u","n","s","u","b","s","c","r","i","b","e">>,
    <<"v","e","r">>,
    <<"v","e","r","s","i","o","n">> >>

RECURSIVE FilterCommands(_)
FilterCommands(names) ==
    IF names = <<>> THEN <<>>
    ELSE LET f == Head(names)
         IN  IF StartsWith(f, w_underscore) \/ StartsWith(f, w_on_prefix) \/ f = w_c
             THEN FilterCommands(Tail(names))
             ELSE <<f>> \o FilterCommands(Tail(names))

\* The same list without the test f.startswith('on_').
get_commands_keeps_callbacks ==
    SelectSeq(ClassDir, LAMBDA f : ~(StartsWith(f, w_underscore) \/ f = w_c))

get_commands == FilterCommands(ClassDir)

\* The function a name of the class is bound to: man = help, ver = version.
FunctionOf(name) ==
    IF name = w_man THEN w_help ELSE IF name = w_ver THEN w_version ELSE name

InList(x, list) == \E i \in 1..Len(list) : list[i] = x

\* ------------------------------------------------------------------ state
VARIABLES
    pc,              \* where main's loop is: Reading, Dispatching, Exiting, Done
    line,            \* main's local line: the line last read
    split,           \* main's local split: the tokens of the line last read
    transaction_id,  \* StompCLI.transaction_id
    conn,            \* the connection: its listener registry and its transactions
    files,           \* the files on disk: name -> bytes
    mtime,           \* the second each file was last written, 0: before the session
    exc,             \* the exception propagating out of main's try statement
    calls,           \* the calls the latest foreground step made into the connection
    out,             \* what the latest foreground step printed
    console,         \* who wrote the last MaxConsole pieces of console output
    now,             \* int(time.time())
    evpc,            \* where the event-delivery thread is in its callback
    ev,              \* the arguments of the __print_async call in progress
    evlast           \* the latest callback: its connection calls, what it raised

vars == <<pc, line, split, transaction_id, conn, files, mtime, exc, calls, out,
          console, now, evpc, ev, evlast>>
fgvars == <<pc, line, split, transaction_id, conn, exc>>
evvars == <<evpc, ev, evlast>>

\* self.transaction_id = None
None == 0

\* The transaction tokens: begin returns str(uuid.uuid4()), a fresh non-empty
\* string each time; token k stands for the k-th distinct such string.
Tokens == 1..MaxTokens

\* Python's truth test of transaction_id (None is false, a non-empty string true).
Truthy(v) == v # None

NoException == "none"

\* A connection call ends by returning or by raising.
ConnOutcomes == {"returned", "NotConnectedException"}

\* value is what the call returned when the handler uses it.
Call(op, kw, r) == [op |-> op, kw |-> kw, result |-> r, value |-> None]

NoArgs == <<>>

CallOps(cs) == {cs[i].op : i \in 1..Len(cs)}

\* ------------------------------------------------------------------ connection
\* The listener registry and the transaction bookkeeping of the connection.
ConnInit ==
    [listeners |-> [n \in {""} |-> "StompCLI"],
     begun |-> {}, ended |-> {}, closed |-> {}, last |-> None]

ConnSetListener(c, name, l) ==
    [c EXCEPT !.listeners = [n \in DOMAIN @ \cup {name} |-> IF n = name THEN l ELSE @[n]]]

ConnRemoveListener(c, name) ==
    [c EXCEPT !.listeners = [n \in DOMAIN @ \ {name} |-> @[n]]]

ConnGetListener(c, name) ==
    IF name \in DOMAIN c.listeners THEN c.listeners[name] ELSE "absent"

\* begin() hands out token t.
ConnBegin(c, t) == [c EXCEPT !.begun = @ \cup {t}, !.last = t]

\* commit(transaction=t) or abort(transaction=t), ending with r.
ConnEnd(c, t, r) ==
    [c EXCEPT !.ended = @ \cup {t},
              !.closed = IF r = "returned" THEN @ \cup {t} ELSE @]

\* ------------------------------------------------------------------ handlers
\* A handler returns to the loop having printed o and made the calls cs.
Returns(o, cs, tid, c) ==
    /\ pc' = "Reading"
    /\ exc' = exc
    /\ transaction_id' = tid
    /\ conn' = c
    /\ calls' = cs
    /\ out' = o

\* The exception of a connection call caught inside the loop, which reads on.
Raises_caught(o, cs, c, e) ==
    /\ pc' = "Reading"
    /\ exc' = exc
    /\ transaction_id' = transaction_id
    /\ conn' = c
    /\ calls' = cs
    /\ out' = o

\* A connection call raised e: the exception leaves the handler and the loop of
\* main, whose try statement catches EOFError and KeyboardInterrupt only.
Raises(o, cs, c, e) ==
    /\ pc' = "Exiting"
    /\ exc' = e
    /\ transaction_id' = transaction_id
    /\ conn' = c
    /\ calls' = cs
    /\ out' = o

\* One connection call that leaves the connection's state alone.
Invoke(o, op, kw) ==
    \E r \in ConnOutcomes :
        IF r = "returned"
        THEN Returns(o, <<Call(op, kw, r)>>, transaction_id, conn)
        ELSE Raises(o, <<Call(op, kw, r)>>, conn, r)

ack(args) ==
    IF Len(args) < 2
    THEN Returns(<< <<"Expecting: ack <message-id>">> >>, <<>>, transaction_id, conn)
    ELSE IF ~Truthy(transaction_id)
    THEN Invoke(<<>>, "ack", [headers |-> [message_id |-> args[2]]])
    ELSE Invoke(<<>>, "ack", [headers |-> [message_id |-> args[2]],
                              transaction |-> transaction_id])

\* abort that forgets to clear transaction_id.
abort_keeps_id(args) ==
    IF ~Truthy(transaction_id)
    THEN Returns(<< <<"Not currently in a transaction">> >>, <<>>, transaction_id, conn)
    ELSE \E r \in ConnOutcomes :
        LET call == Call("abort", [transaction |-> transaction_id], r)
            c == ConnEnd(conn, transaction_id, r)
        IN  IF r = "returned"
            THEN Returns(<<>>, <<call>>, transaction_id, c)
            ELSE Raises(<<>>, <<call>>, c, r)

abort(args) ==
    IF ~Truthy(transaction_id)
    THEN Returns(<< <<"Not currently in a transaction">> >>, <<>>, transaction_id, conn)
    ELSE \E r \in ConnOutcomes :
        LET call == Call("abort", [transaction |-> transaction_id], r)
            c == ConnEnd(conn, transaction_id, r)
        IN  IF r = "returned"
            THEN Returns(<<>>, <<call>>, None, c)
            ELSE Raises(<<>>, <<call>>, c, r)

\* begin that does not test for an open transaction.
begin_unguarded(args) ==
    \/ \E t \in Tokens \ conn.begun :
         Returns(<< <<"Transaction id: %s", t>> >>,
                 <<[Call("begin", NoArgs, "returned") EXCEPT !.value = t]>>,
                 t, ConnBegin(conn, t))
    \/ Raises(<<>>, <<Call("begin", NoArgs, "NotConnectedException")>>,
              conn, "NotConnectedException")

begin(args) ==
    IF Truthy(transaction_id)
    THEN Returns(<< <<"Currently in a transaction (%s)", transaction_id>> >>,
                 <<>>, transaction_id, conn)
    ELSE \/ \E t \in Tokens \ conn.begun :
              Returns(<< <<"Transaction id: %s", t>> >>,
                      <<[Call("begin", NoArgs, "returned") EXCEPT !.value = t]>>,
                      t, ConnBegin(conn, t))
         \/ Raises(<<>>, <<Call("begin", NoArgs, "NotConnectedException")>>,
                   conn, "NotConnectedException")

\* commit that does not test for an open transaction.
commit_unguarded(args) ==
    \E r \in ConnOutcomes :
        LET call == Call("commit", [transaction |-> transaction_id], r)
            c == ConnEnd(conn, transaction_id, r)
            o == << <<"Committing %s", transaction_id>> >>
        IN  IF r = "returned"
            THEN Returns(o, <<call>>, None, c)
            ELSE Raises(o, <<call>>, c, r)

\* commit that forgets to clear transaction_id.
commit_keeps_id(args) ==
    IF ~Truthy(transaction_id)
    THEN Returns(<< <<"Not currently in a transaction">> >>, <<>>, transaction_id, conn)
    ELSE \E r \in ConnOutcomes :
        LET call == Call("commit", [transaction |-> transaction_id], r)
            c == ConnEnd(conn, transaction_id, r)
            o == << <<"Committing %s", transaction_id>> >>
        IN  IF r = "returned"
            THEN Returns(o, <<call>>, transaction_id, c)
            ELSE Raises(o, <<call>>, c, r)

commit(args) ==
    IF ~Truthy(transaction_id)
    THEN Returns(<< <<"Not currently in a transaction">> >>, <<>>, transaction_id, conn)
    ELSE \E r \in ConnOutcomes :
        LET call == Call("commit", [transaction |-> transaction_id], r)
            c == ConnEnd(conn, transaction_id, r)
            o == << <<"Committing %s", transaction_id>> >>
        IN  IF r = "returned"
            THEN Returns(o, <<call>>, None, c)
            ELSE Raises(o, <<call>>, c, r)

\* The exception that leaves StompCLI.disconnect when conn.disconnect() ended
\* with r.  The except clause names NotConnectedException, which the module
\* never imports: matching a raised exception against it raises NameError.
disconnect_raises(r) == IF r = "returned" THEN NoException ELSE "NameError"

\* disconnect, dispatched as a command.
disconnect(args) ==
    \E r \in ConnOutcomes :
        LET call == Call("disconnect", NoArgs, r)
        IN  IF disconnect_raises(r) = NoException
            THEN Returns(<<>>, <<call>>, transaction_id, conn)
            ELSE Raises(<<>>, <<call>>, conn, disconnect_raises(r))

\* send with its argument test off by one.
send_short(args) ==
    IF Len(args) < 2
    THEN Returns(<< <<"Expecting: send <destination> <message>">> >>, <<>>,
                 transaction_id, conn)
    ELSE IF ~Truthy(transaction_id)
    THEN Invoke(<<>>, "send",
                [destination |-> args[2], message |-> join(SliceFrom(args, 2))])
    ELSE Invoke(<<>>, "send",
                [destination |-> args[2], message |-> join(SliceFrom(args, 2)),
                 transaction |-> transaction_id])

send(args) ==
    IF Len(args) < 3
    THEN Returns(<< <<"Expecting: send <destination> <message>">> >>, <<>>,
                 transaction_id, conn)
    ELSE IF ~Truthy(transaction_id)
    THEN Invoke(<<>>, "send",
                [destination |-> args[2], message |-> join(SliceFrom(args, 2))])
    ELSE Invoke(<<>>, "send",
                [destination |-> args[2], message |-> join(SliceFrom(args, 2)),
                 transaction |-> transaction_id])

\* sendfile that never attaches the open transaction.
sendfile_no_transaction(args) ==
    IF Len(args) < 3
    THEN Returns(<< <<"Expecting: sendfile <destination> <filename>">> >>, <<>>,
                 transaction_id, conn)
    ELSE IF args[3] \notin DOMAIN files
    THEN Returns(<< <<"File %s does not exist", args[3]>> >>, <<>>, transaction_id, conn)
    ELSE Invoke(<<>>, "send",
                [destination |-> args[2], message |-> b64encode(files[args[3]]),
                 filename |-> args[3]])

sendfile(args) ==
    IF Len(args) < 3
    THEN Returns(<< <<"Expecting: sendfile <destination> <filename>">> >>, <<>>,
                 transaction_id, conn)
    ELSE IF args[3] \notin DOMAIN files
    THEN Returns(<< <<"File %s does not exist", args[3]>> >>, <<>>, transaction_id, conn)
    ELSE LET s == files[args[3]]
             msg == b64encode(s)
         IN  IF ~Truthy(transaction_id)
             THEN Invoke(<<>>, "send",
                         [destination |-> args[2], message |-> msg, filename |-> args[3]])
             ELSE Invoke(<<>>, "send",
                         [destination |-> args[2], message |-> msg, filename |-> args[3],
                          transaction |-> transaction_id])

subscribe(args) ==
    IF Len(args) < 2
    THEN Returns(<< <<"Expecting: subscribe <destination> [ack]">> >>, <<>>,
                 transaction_id, conn)
    ELSE IF Len(args) > 2
    THEN Invoke(<< <<"Subscribing to \"%s\" with acknowledge set to \"%s\"",
                     args[2], args[3]>> >>,
                "subscribe", [destination |-> args[2], ack |-> args[3]])
    ELSE Invoke(<< <<"Subscribing to \"%s\" with auto acknowledge", args[2]>> >>,
                "subscribe", [destination |-> args[2], ack |-> w_auto])

unsubscribe(args) ==
    IF Len(args) < 2
    THEN Returns(<< <<"Expecting: unsubscribe <destination>">> >>, <<>>,
                 transaction_id, conn)
    ELSE Invoke(<< <<"Unsubscribing from \"%s\"", args[2]>> >>,
                "unsubscribe", [destination |-> args[2]])

\* stats without the 'off' branch of lines 281-282.
stats_no_off(args) ==
    IF Len(args) < 2
    THEN LET l == ConnGetListener(conn, "stats")
             call == Call("get_listener", [name |-> "stats"], "returned")
         IN  IF l # "absent"
             THEN Returns(<< <<"%s", l>> >>, <<call>>, transaction_id, conn)
             ELSE Returns(<< <<"No stats available">> >>, <<call>>, transaction_id, conn)
    ELSE IF args[2] = w_on
    THEN Returns(<<>>, <<Call("set_listener", [name |-> "stats"], "returned")>>,
                 transaction_id, ConnSetListener(conn, "stats", "StatsListener"))
    ELSE Returns(<< <<"Expecting: stats [on|off]">> >>, <<>>, transaction_id, conn)

\* The three registry operations need no link: they return.
stats(args) ==
    IF Len(args) < 2
    THEN LET l == ConnGetListener(conn, "stats")
             call == Call("get_listener", [name |-> "stats"], "returned")
         IN  IF l # "absent"
             THEN Returns(<< <<"%s", l>> >>, <<call>>, transaction_id, conn)
             ELSE Returns(<< <<"No stats available">> >>, <<call>>, transaction_id, conn)
    ELSE IF args[2] = w_on
    THEN Returns(<<>>, <<Call("set_listener", [name |-> "stats"], "returned")>>,
                 transaction_id, ConnSetListener(conn, "stats", "StatsListener"))
    ELSE IF args[2] = w_off
    THEN Returns(<<>>, <<Call("remove_listener", [name |-> "stats"], "returned")>>,
                 transaction_id, ConnRemoveListener(conn, "stats"))
    ELSE Returns(<< <<"Expecting: stats [on|off]">> >>, <<>>, transaction_id, conn)

\* hasattr(self, name), for the names the class defines.
hasattr(name) == InList(name, ClassDir)

\* Whether the function bound to name carries a docstring: every method of the
\* class but __init__ and version (and its alias ver) has one.
HasDoc(name) == name \notin {w_version, w_ver, <<"_","_","i","n","i","t","_","_">>}

help(args) ==
    IF Len(args) = 1
    THEN Returns(<< <<"Usage: help <command>, where command is one of the following:">>,
                    <<"    ">> >>
                 \o [i \in 1..Len(get_commands) |-> <<"%s ", get_commands[i]>>]
                 \o << <<"">> >>,
                 <<>>, transaction_id, conn)
    ELSE IF ~hasattr(args[2])
    THEN Returns(<< <<"There is no command \"%s\"", args[2]>> >>, <<>>,
                 transaction_id, conn)
    ELSE IF HasDoc(args[2])
    THEN Returns(<< <<"__doc__", args[2]>> >>, <<>>, transaction_id, conn)
    ELSE Returns(<< <<"There is no help for command \"%s\"", args[2]>> >>, <<>>,
                 transaction_id, conn)

man(args) == help(args)

version(args) ==
    Returns(<< <<"Stomp.py Version %s.%s">> >>, <<>>, transaction_id, conn)

ver(args) == version(args)

\* getattr(st, command)(split)
getattr(command, args) ==
    CASE command = w_abort -> abort(args)
      [] command = w_ack -> ack(args)
      [] command = w_begin -> begin(args)
      [] command = w_commit -> commit(args)
      [] command = w_disconnect -> disconnect(args)
      [] command = w_help -> help(args)
      [] command = w_man -> man(args)
      [] command = w_send -> send(args)
      [] command = w_sendfile -> sendfile(args)
      [] command = w_stats -> stats(args)
      [] command = w_subscribe -> subscribe(args)
      [] command = w_unsubscribe -> unsubscribe(args)
      [] command = w_ver -> ver(args)
      [] command = w_version -> version(args)

\* ------------------------------------------------------------------ console
Last(s, n) == IF Len(s) <= n THEN s ELSE SubSeq(s, Len(s) - n + 1, Len(s))

\* The console after the writes ws, each tagged with its writer.
Emit(c, ws) == Last(c \o ws, MaxConsole)

\* One "fg" per print of the foreground.
ByForeground(o) == [i \in 1..Len(o) |-> "fg"]

Prompt == <<"\\r> ">>

\* ------------------------------------------------------------------ input
\* The lines the operator types.
Lines == {
    <<>>, <<" ", "\t">>,
    join(<<w_ack>>), join(<<w_ack, w_m1>>),
    join(<<w_abort>>), join(<<w_begin>>), join(<<w_commit>>),
    <<" ">> \o join(<<w_begin>>) \o <<" ", " ">>,
    join(<<w_send>>), join(<<w_send, w_dest>>), join(<<w_send, w_dest, w_hi>>),
    w_send \o <<" ", " ">> \o w_dest \o <<"\t">> \o w_hi \o <<" ", " ">> \o w_yo,
    join(<<w_sendfile, w_dest>>), join(<<w_sendfile, w_dest, w_file>>),
    join(<<w_sendfile, w_dest, w_nofile>>),
    join(<<w_subscribe>>), join(<<w_subscribe, w_dest>>),
    join(<<w_subscribe, w_dest, w_client>>), join(<<w_subscribe, w_dest, w_bad>>),
    join(<<w_unsubscribe>>), join(<<w_unsubscribe, w_dest>>),
    join(<<w_stats>>), join(<<w_stats, w_on>>), join(<<w_stats, w_off>>),
    join(<<w_stats, w_bad>>),
    join(<<w_help>>), join(<<w_help, w_send>>), join(<<w_help, w_frob>>),
    join(<<w_help, w_version>>), join(<<w_help, w_on_message>>), join(<<w_man, w_ack>>),
    join(<<w_ver>>), join(<<w_version>>),
    join(<<w_quit>>), join(<<w_quitx>>), join(<<w_disconnect>>),
    join(<<w_disconnect, w_now>>), join(<<w_frob>>) }

\* The files on disk when the session starts.
FilesInit == [n \in {w_file} |-> <<77, 97>>]

\* ------------------------------------------------------------------ main
\* The exit test that knows quit only.
IsExitLine_quit_only(ln) == StartsWith(ln, w_quit)

\* line.startswith('quit') or line.startswith('disconnect')
IsExitLine(ln) == StartsWith(ln, w_quit) \/ StartsWith(ln, w_disconnect)

\* not line or line.lstrip().rstrip() == ''
IsBlank(ln) == ln = <<>> \/ rstrip(lstrip(ln)) = <<>>

Foreground ==
    /\ console' = Emit(console, ByForeground(out'))
    /\ UNCHANGED <<files, mtime, now, evvars>>

\* One turn of the loop up to the dispatch: input("\r> "), the blank test, the
\* exit test, the split.
ReadFrom(typed) ==
    /\ pc = "Reading"
    /\ \E l \in typed :
        IF IsBlank(l)
        THEN pc' = "Reading" /\ line' = l /\ split' = split
        ELSE LET stripped == rstrip(lstrip(l))
             IN  /\ line' = stripped
                 /\ IF IsExitLine(stripped)
                    THEN pc' = "Exiting" /\ split' = split
                    ELSE pc' = "Dispatching" /\ split' = str_split(stripped)
    /\ out' = <<Prompt>>
    /\ calls' = <<>>
    /\ UNCHANGED <<transaction_id, conn, exc>>
    /\ Foreground

\* The operator types any of the lines.
ReadLine == ReadFrom(Lines)

\* input() raises EOFError at the end of the input: caught, the loop ends.
ReadEOF ==
    /\ pc = "Reading"
    /\ pc' = "Exiting"
    /\ out' = <<Prompt>>
    /\ calls' = <<>>
    /\ UNCHANGED <<line, split, transaction_id, conn, exc>>
    /\ Foreground

\* The operator interrupts: KeyboardInterrupt in the main thread, caught.
Interrupt ==
    /\ pc \in {"Reading", "Dispatching"}
    /\ pc' = "Exiting"
    /\ out' = IF pc = "Reading" THEN <<Prompt>> ELSE <<>>
    /\ calls' = <<>>
    /\ UNCHANGED <<line, split, transaction_id, conn, exc>>
    /\ Foreground

\* command in commands: the handler runs with the whole token list.
Dispatch ==
    /\ pc = "Dispatching"
    /\ InList(split[1], get_commands)
    /\ getattr(split[1], split)
    /\ UNCHANGED <<line, split>>
    /\ Foreground

\* The same step without the membership test of line 365: the name is looked
\* up on the controller and the lookup fails.
Unrecognized_raises ==
    /\ pc = "Dispatching"
    /\ ~InList(split[1], get_commands)
    /\ Raises(<<>>, <<>>, conn, "AttributeError")
    /\ UNCHANGED <<line, split>>
    /\ Foreground

\* command not in commands: print the message and read on.
Unrecognized ==
    /\ pc = "Dispatching"
    /\ ~InList(split[1], get_commands)
    /\ Returns(<< <<"Unrecognized command">> >>, <<>>, transaction_id, conn)
    /\ UNCHANGED <<line, split>>
    /\ Foreground

\* finally: st.disconnect(None).  What disconnect raises replaces the exception
\* that was propagating, and the program ends.
Exit ==
    /\ pc = "Exiting"
    /\ \E r \in ConnOutcomes :
        /\ calls' = <<Call("disconnect", NoArgs, r)>>
        /\ exc' = IF disconnect_raises(r) = NoException THEN exc ELSE disconnect_raises(r)
    /\ pc' = "Done"
    /\ out' = <<>>
    /\ UNCHANGED <<line, split, transaction_id, conn>>
    /\ Foreground

\* ------------------------------------------------------------------ events
HeaderList == << <<"message-id", "m1">>, <<"destination", "/q">>, <<"receipt-id", "r1">> >>

MinOf(a, b) == IF a < b THEN a ELSE b

\* The headers of an inbound frame, in the order the connection supplies them.
HeaderChoices == {SubSeq(HeaderList, 1, n) : n \in 0..MinOf(MaxHeaders, Len(HeaderList))}

Bodies == {w_hi}

Idle == [frame_type |-> "", headers |-> <<>>, body |-> <<>>, k |-> 0]

EventStep ==
    /\ pc # "Done"
    /\ UNCHANGED <<fgvars, calls, out, now>>

\* What is known of a callback that made no connection call and raised nothing.
Quiet == [calls |-> <<>>, raised |-> NoException]

\* __print_async is entered with these arguments; its first print is next.
print_async_enter(frame_type, headers, body) ==
    /\ evpc = "idle"
    /\ evpc' = "erase"
    /\ ev' = [frame_type |-> frame_type, headers |-> headers, body |-> body, k |-> 0]
    /\ evlast' = Quiet
    /\ console' = console
    /\ EventStep

on_error ==
    /\ \E h \in HeaderChoices, b \in Bodies : print_async_enter("ERROR", h, b)
    /\ UNCHANGED <<files, mtime>>

on_receipt ==
    /\ \E h \in HeaderChoices, b \in Bodies : print_async_enter("RECEIPT", h, b)
    /\ UNCHANGED <<files, mtime>>

on_connected ==
    /\ \E h \in HeaderChoices, b \in Bodies : print_async_enter("CONNECTED", h, b)
    /\ UNCHANGED <<files, mtime>>

\* on_disconnected that also forgets the open transaction.
on_disconnected_resets ==
    /\ evpc = "idle"
    /\ pc # "Done"
    /\ console' = Emit(console, <<"lost connection">>)
    /\ evlast' = Quiet
    /\ transaction_id' = None
    /\ UNCHANGED <<pc, line, split, conn, exc, calls, out, now, evpc, ev, files, mtime>>

on_disconnected ==
    /\ evpc = "idle"
    /\ console' = Emit(console, <<"lost connection">>)
    /\ evlast' = Quiet
    /\ UNCHANGED <<evpc, ev, files, mtime>>
    /\ EventStep

\* self.conn.connect(wait=True), which returns or raises.
on_connecting ==
    /\ evpc = "idle"
    /\ \E r \in ConnOutcomes :
        evlast' = [calls |-> <<Call("connect", [wait |-> TRUE], r)>>,
                   raised |-> IF r = "returned" THEN NoException ELSE r]
    /\ UNCHANGED <<evpc, ev, files, mtime, console>>
    /\ EventStep

\* 'filename' in headers, headers['filename']
HasHeader(headers, key) == \E i \in 1..Len(headers) : headers[i][1] = key

HeaderValue(headers, key) ==
    headers[CHOOSE i \in 1..Len(headers) : headers[i][1] = key][2]

\* '%s.%s' % (name, int(time.time()))
TimestampedName(name, t) == name \o w_dot \o Digits(t)

\* The name the received file is written under.
ResolvedName(requested) ==
    IF requested \in DOMAIN files THEN TimestampedName(requested, now) ELSE requested

\* open(fname, 'wb').write(content): the file is created or replaced.
Write(disk, fname, content) ==
    [n \in DOMAIN disk \cup {fname} |-> IF n = fname THEN content ELSE disk[n]]

\* The callback ends by raising e.
CallbackRaises(e) ==
    /\ evpc = "idle"
    /\ evlast' = [calls |-> <<>>, raised |-> e]
    /\ UNCHANGED <<evpc, ev, files, mtime, console>>
    /\ EventStep

\* on_message without the test of line 71: always the requested name.
on_message_overwrites(headers, body) ==
    IF HasHeader(headers, "filename")
    THEN LET content == b64decode(body)
             fname == HeaderValue(headers, "filename")
         IN  IF ~content.ok
             THEN CallbackRaises("binascii.Error")
             ELSE /\ files' = Write(files, fname, content.bytes)
                  /\ mtime' = Write(mtime, fname, now)
                  /\ print_async_enter("MESSAGE", headers, <<"Saved file: %s", fname>>)
    ELSE /\ print_async_enter("MESSAGE", headers, body)
         /\ UNCHANGED <<files, mtime>>

on_message(headers, body) ==
    IF HasHeader(headers, "filename")
    THEN LET content == b64decode(body)
             fname == ResolvedName(HeaderValue(headers, "filename"))
         IN  IF ~content.ok
             THEN CallbackRaises("binascii.Error")
             ELSE /\ files' = Write(files, fname, content.bytes)
                  /\ mtime' = Write(mtime, fname, now)
                  /\ print_async_enter("MESSAGE", headers, <<"Saved file: %s", fname>>)
    ELSE /\ print_async_enter("MESSAGE", headers, body)
         /\ UNCHANGED <<files, mtime>>

\* The headers of a frame that carries a file.
FileHeaders(name) == << <<"filename", name>> >>

\* The frames of the files the latest command sent, as the broker delivers
\* them back to a session subscribed to their destination.
Echoes ==
    {[headers |-> FileHeaders(calls[i].kw.filename), body |-> calls[i].kw.message] :
        i \in {j \in 1..Len(calls) : /\ calls[j].op = "send"
                                     /\ "filename" \in DOMAIN calls[j].kw
                                     /\ calls[j].result = "returned"}}

\* Frames of other senders: a file with a well-formed body, the same with its
\* padding lost, and plain messages.
Injected ==
    {[headers |-> FileHeaders(w_nofile), body |-> b] : b \in {w_TWE_pad, w_TWE}}
    \cup {[headers |-> h, body |-> b] : h \in HeaderChoices, b \in Bodies}

\* One of these MESSAGE frames arrives.
DeliverFrom(frames) == \E m \in frames : on_message(m.headers, m.body)

Deliver == DeliverFrom(Echoes \cup Injected)

\* The frame of a file this session sent comes back.
DeliverEcho == DeliverFrom(Echoes)

\* A second passes.
Tick ==
    /\ pc # "Done"
    /\ now < MaxClock
    /\ now' = now + 1
    /\ UNCHANGED <<fgvars, files, mtime, calls, out, console, evvars>>

\* The print of __print_async that follows the one at position p, after k headers.
NextPrint(p, k, headers) ==
    CASE p = "erase" -> "label"
      [] p \in {"label", "header"} -> IF k < Len(headers) THEN "header" ELSE "blank"
      [] p = "blank" -> "body"
      [] p = "body" -> "prompt"
      [] p = "prompt" -> "idle"

\* One print of __print_async: the erase sequence, the label, a header line,
\* the blank line, the body, the prompt.
print_async_step ==
    /\ evpc # "idle"
    /\ console' = Emit(console, <<evpc>>)
    /\ LET k == IF evpc = "header" THEN ev.k + 1 ELSE ev.k
           n == NextPrint(evpc, k, ev.headers)
       IN  /\ evpc' = n
           /\ ev' = IF n = "idle" THEN Idle ELSE [ev EXCEPT !.k = k]
    /\ UNCHANGED <<evlast, files, mtime>>
    /\ EventStep

\* ------------------------------------------------------------------ specification
\* The state after StompCLI.__init__, with these files on disk.
InitWith(disk) ==
    /\ pc = "Reading"
    /\ line = <<>>
    /\ split = <<>>
    /\ transaction_id = None
    /\ conn = ConnInit
    /\ files = disk
    /\ mtime = [n \in DOMAIN disk |-> 0]
    /\ exc = NoException
    /\ calls = <<>>
    /\ out = <<>>
    /\ console = <<>>
    /\ now = 1
    /\ evpc = "idle"
    /\ ev = Idle
    /\ evlast = Quiet

Init == InitWith(FilesInit)

\* The lines of a short session.
SessionLines == {
    join(<<w_begin>>), join(<<w_stats, w_on>>), join(<<w_frob>>), join(<<w_quit>>) }

ReadSession == ReadFrom(SessionLines)

\* The program: main's loop and the callbacks of the event-delivery thread.
Next ==
    \/ ReadSession
    \/ ReadEOF
    \/ Interrupt
    \/ Dispatch
    \/ Unrecognized
    \/ Exit
    \/ on_connecting
    \/ on_connected
    \/ on_disconnected
    \/ Deliver
    \/ on_error
    \/ on_receipt
    \/ print_async_step

Spec == Init /\ [][Next]_vars

\* A file left by an earlier session under the name a reception at the last
\* second resolves to.
OldName == TimestampedName(w_file, MaxClock)

\* The disks a reception starts from: the file to send, with or without the
\* older file.
Disks ==
    {[n \in DOMAIN FilesInit \cup olds |-> IF n \in DOMAIN FilesInit THEN FilesInit[n] ELSE <<13>>] :
        olds \in SUBSET {OldName}}

InitTransfer == \E disk \in Disks : InitWith(disk)

TransferLines == {join(<<w_sendfile, w_dest, w_file>>)}

ReadTransfer == ReadFrom(TransferLines)

\* File reception: the operator sends the file, frames carrying files arrive,
\* time passes.
NextTransfer ==
    \/ ReadTransfer
    \/ Dispatch
    \/ Deliver
    \/ print_async_step
    \/ Tick

SpecTransfer == InitTransfer /\ [][NextTransfer]_vars

\* The bytes a file is made of: one that is text, one that no UTF-8 text holds.
ByteValues == {77, 255}

\* The contents of the file the operator sends.
Contents == UNION {[1..n -> ByteValues] : n \in 0..MaxBytes}

InitRoundTrip == \E b \in Contents : InitWith([n \in {w_file} |-> b])

\* The round trip of a file: the operator sends it, its frame comes back.
NextRoundTrip ==
    \/ ReadTransfer
    \/ Dispatch
    \/ DeliverEcho
    \/ print_async_step
    \/ Tick

SpecRoundTrip == InitRoundTrip /\ [][NextRoundTrip]_vars

\* The session while no inbound event arrives: the command loop alone.
LoopNext ==
    \/ ReadLine
    \/ ReadEOF
    \/ Interrupt
    \/ Dispatch
    \/ Unrecognized
    \/ Exit

SpecLoop == Init /\ [][LoopNext]_vars

\* ------------------------------------------------------------------ properties
\* The token of the most recent begin that no commit or abort has followed, or
\* None: what the connection knows, whatever transaction_id says.
CurrentToken ==
    IF conn.last # None /\ conn.last \notin conn.ended THEN conn.last ELSE None

\* The tokens begin has returned that no commit or abort call has been given.
NotYetPassed == conn.begun \ conn.ended

\* The tokens begin has returned that no commit or abort call that returned
\* normally has been given.
OpenTokens == conn.begun \ conn.closed

HasKw(c, k) == k \in DOMAIN c.kw

\* The step dispatches the handler of command name.
Dispatches(name) == Dispatch /\ split[1] = name

\* C1: ack, subscribe, unsubscribe given fewer than 2 tokens and send, sendfile
\* given fewer than 3 make no call into the connection and leave transaction_id
\* and the connection (its listener registry included) unchanged, whether a
\* transaction is open or not.
TooFewArgs(args) ==
    \/ args[1] \in {w_ack, w_subscribe, w_unsubscribe} /\ Len(args) < 2
    \/ args[1] \in {w_send, w_sendfile} /\ Len(args) < 3

C1_TooFewArgsNoEffect ==
    [][(Dispatch /\ TooFewArgs(split)) =>
          /\ calls' = <<>>
          /\ transaction_id' = transaction_id
          /\ conn'.listeners = conn.listeners
          /\ conn' = conn]_vars

\* Witness of C1: send with two tokens has run inside an open transaction and
\* returned to the loop.
C1_Witness ==
    /\ pc = "Reading"
    /\ split = <<w_send, w_dest>>
    /\ Truthy(transaction_id)
    /\ calls = <<>>

\* C2 as claimed: at most one token returned by begin has not yet been passed
\* to commit or abort, and transaction_id is set exactly when there is such a
\* token, and is that token.
C2_SetIffNotYetPassed ==
    /\ Cardinality(NotYetPassed) <= 1
    /\ Truthy(transaction_id) <=> NotYetPassed # {}
    /\ Truthy(transaction_id) => NotYetPassed = {transaction_id}

\* C2, amended: at most one token returned by begin has not yet been passed to
\* a commit or abort call that returned normally, and transaction_id is set
\* exactly when there is such a token, and is that token.  (A commit or abort
\* call that raises leaves transaction_id set.)
C2_AtMostOneOpen ==
    /\ Cardinality(NotYetPassed) <= 1
    /\ Cardinality(OpenTokens) <= 1
    /\ Truthy(transaction_id) <=> OpenTokens # {}
    /\ Truthy(transaction_id) => OpenTokens = {transaction_id}

\* Witness of C2: a second transaction is open after the first was ended by an
\* abort that returned.
C2_Witness ==
    /\ pc = "Reading"
    /\ split = <<w_begin>>
    /\ Truthy(transaction_id)
    /\ conn.closed # {}
    /\ transaction_id \notin conn.closed

\* C3: a begin that follows a begin with no commit or abort in between makes
\* no call to the connection's begin and leaves transaction_id equal to the
\* token the first begin stored, whichever token that is.
C3_BeginIdempotent ==
    [][(Dispatches(w_begin) /\ CurrentToken # None) =>
          /\ "begin" \notin CallOps(calls')
          /\ transaction_id' = CurrentToken
          /\ conn' = conn]_vars

\* Witness of C3: the second begin has run and reported the open transaction.
C3_Witness ==
    /\ pc = "Reading"
    /\ split = <<w_begin>>
    /\ calls = <<>>
    /\ Len(out) = 1
    /\ out[1][1] = "Currently in a transaction (%s)"
    /\ transaction_id = conn.last

\* C4: commit and abort invoked while no transaction is open make no call into
\* the connection and leave transaction_id absent.
C4_NoTransactionNoCall ==
    [][((Dispatches(w_commit) \/ Dispatches(w_abort)) /\ OpenTokens = {}) =>
          /\ calls' = <<>>
          /\ transaction_id' = None
          /\ conn' = conn]_vars

\* Witness of C4: commit has run with no transaction open, after an earlier
\* transaction was ended.
C4_Witness ==
    /\ pc = "Reading"
    /\ split = <<w_commit>>
    /\ calls = <<>>
    /\ transaction_id = None
    /\ conn.closed # {}
    /\ Len(out) = 1
    /\ out[1][1] = "Not currently in a transaction"

\* The characters of all the tokens together.
RECURSIVE TotalLen(_)
TotalLen(tokens) == IF tokens = <<>> THEN 0 ELSE Len(Head(tokens)) + TotalLen(Tail(tokens))

\* m is the tokens in order with exactly one space between neighbours: it
\* splits back into the tokens, holds one separator per gap and no other
\* whitespace than ' '.
SingleSpaced(m, tokens) ==
    /\ str_split(m) = tokens
    /\ Len(m) = TotalLen(tokens) + Len(tokens) - 1
    /\ \A j \in 1..Len(m) : IsSpace(m[j]) => m[j] = " "

\* C5: every send and ack call the connection receives (sendfile sends through
\* send) carries the token of the most recent begin when no commit or abort
\* has followed it, and no transaction otherwise; the call of the send command
\* carries the operator's destination and, as message, the remaining tokens
\* joined by single spaces.
C5_CallsCarryOpenToken ==
    [][Dispatch =>
          \A i \in 1..Len(calls') :
              LET c == calls'[i]
              IN  /\ c.op \in {"send", "ack"} =>
                        IF CurrentToken # None
                        THEN HasKw(c, "transaction") /\ c.kw.transaction = CurrentToken
                        ELSE ~HasKw(c, "transaction")
                  /\ (c.op = "send" /\ split[1] = w_send) =>
                        /\ c.kw.destination = split[2]
                        /\ SingleSpaced(c.kw.message, SliceFrom(split, 2))]_vars

\* Witness of C5: a send of two message words typed with runs of whitespace
\* has reached the connection inside a transaction.
C5_Witness ==
    /\ pc = "Reading"
    /\ Len(split) = 4
    /\ split[1] = w_send
    /\ Len(calls) = 1
    /\ calls[1].op = "send"
    /\ HasKw(calls[1], "transaction")
    /\ calls[1].kw.transaction = transaction_id
    /\ calls[1].kw.message = <<"h", "i", " ", "y", "o">>

\* The connection call the handler of commit or abort is to make.
EndingOp == IF split[1] = w_commit THEN "commit" ELSE "abort"

\* C6 as claimed: commit (abort) invoked with a transaction open calls the
\* connection's commit (abort) exactly once with the open token and then
\* clears transaction_id.
C6_EndsAndClears ==
    [][((Dispatches(w_commit) \/ Dispatches(w_abort)) /\ CurrentToken # None) =>
          /\ Len(calls') = 1
          /\ calls'[1].op = EndingOp
          /\ calls'[1].kw.transaction = CurrentToken
          /\ transaction_id' = None]_vars

\* C6, amended: commit (abort) invoked with a transaction open calls the
\* connection's commit (abort) exactly once with the open token; when the call
\* returns, transaction_id is cleared and the loop reads on, and a commit or
\* abort that follows is a no-op without a connection call; when the call
\* raises, transaction_id keeps the token and the loop ends.
C6_EndsAndClearsOnReturn ==
    [][/\ ((Dispatches(w_commit) \/ Dispatches(w_abort)) /\ CurrentToken # None) =>
            /\ Len(calls') = 1
            /\ calls'[1].op = EndingOp
            /\ calls'[1].kw.transaction = CurrentToken
            /\ IF calls'[1].result = "returned"
               THEN transaction_id' = None /\ pc' = "Reading"
               ELSE transaction_id' = CurrentToken /\ pc' = "Exiting"
       /\ ((Dispatches(w_commit) \/ Dispatches(w_abort)) /\ conn.last \in conn.closed) =>
            /\ calls' = <<>>
            /\ transaction_id' = None
            /\ pc' = "Reading"]_vars

\* Witness of C6: a transaction was ended by a call that returned, and the
\* abort that followed has run as a no-op.
C6_Witness ==
    /\ pc = "Reading"
    /\ split = <<w_abort>>
    /\ conn.last # None
    /\ conn.last \in conn.closed
    /\ calls = <<>>
    /\ transaction_id = None
    /\ Len(out) = 1
    /\ out[1][1] = "Not currently in a transaction"

\* The prints of one __print_async call that may follow a given print of it.
PresenterSuccessors(p) ==
    CASE p = "erase" -> {"label"}
      [] p \in {"label", "header"} -> {"header", "blank"}
      [] p = "blank" -> {"body"}
      [] p = "body" -> {"prompt"}
      [] OTHER -> {}

\* C7: the console writes of one __print_async call (erase sequence, label,
\* each header line, blank line, body, prompt) are contiguous in the console
\* output: each write but the last is followed at once by the next write of the
\* same call, never by a write of the foreground.
C7_PresenterContiguous ==
    \A i \in 1..(Len(console) - 1) :
        console[i] \in {"erase", "label", "header", "blank", "body"} =>
            console[i + 1] \in PresenterSuccessors(console[i])

\* C8: a connection call that raises inside a command handler leaves the loop
\* reading commands.
C8_LoopSurvivesFailure ==
    [][(Dispatch /\ \E i \in 1..Len(calls') : calls'[i].result # "returned") =>
          pc' = "Reading"]_vars

\* C9: when the connection's disconnect raises the not-connected exception,
\* StompCLI.disconnect returns normally: no exception leaves it.
C9_DisconnectSwallowsNotConnected ==
    \A i \in 1..Len(calls) :
        (calls[i].op = "disconnect" /\ calls[i].result = "NotConnectedException") =>
            exc # "NameError"

\* The first token is quit or starts with disconnect.
IsExitToken(t) == t = w_quit \/ StartsWith(t, w_disconnect)

\* C10: the loop leaves Exiting by one disconnect call and is then done; no
\* step but that one calls disconnect, nothing happens once the loop is done,
\* and a line whose first token is quit or starts with disconnect is never
\* dispatched.
C10_DisconnectOnceThenStop ==
    [][/\ pc = "Exiting" =>
            /\ pc' = "Done"
            /\ Len(calls') = 1
            /\ calls'[1].op = "disconnect"
            /\ transaction_id' = transaction_id
            /\ conn' = conn
       /\ pc # "Exiting" => "disconnect" \notin CallOps(calls')
       /\ pc # "Done"
       /\ pc' = "Dispatching" => ~IsExitToken(split'[1])]_vars

\* Witness of C10: the loop is done after commands ran; its one disconnect
\* call returned and a transaction was left open.
C10_Witness ==
    /\ pc = "Done"
    /\ exc = NoException
    /\ Truthy(transaction_id)
    /\ Len(calls) = 1
    /\ calls[1].op = "disconnect"
    /\ calls[1].result = "returned"

\* The first token of a non-blank line.
FirstToken(l) == str_split(l)[1]

\* The step dispatches nothing: the line's first token is not in the catalog.
Unmatched == pc = "Dispatching" /\ ~InList(split[1], get_commands) /\ ~Interrupt

\* What the loop does with an unmatched name: the message, no call, no change
\* of the transaction or the connection, and back to Reading.
UnmatchedEffect ==
    /\ out' = << <<"Unrecognized command">> >>
    /\ calls' = <<>>
    /\ transaction_id' = transaction_id
    /\ conn' = conn
    /\ exc' = exc
    /\ pc' = "Reading"

\* C11 as stated: a non-blank line whose first token is neither a catalog name
\* nor quit nor disconnect-prefixed goes to Dispatching, and from there the
\* loop prints the unrecognized-command message, calls nothing, leaves
\* transaction_id alone and returns to Reading.
C11_UnrecognizedByToken ==
    [][/\ (ReadLine /\ ~IsBlank(line')
            /\ ~InList(FirstToken(line'), get_commands)
            /\ ~IsExitToken(FirstToken(line')))
          => pc' = "Dispatching" /\ split' = str_split(line')
       /\ Unmatched => UnmatchedEffect]_vars

\* C11 amended: the same for a non-blank line that, stripped, starts neither
\* with quit nor with disconnect and whose first token is not a catalog name:
\* the unrecognized-command message, no call, transaction_id unchanged, back
\* to Reading.
C11_UnrecognizedByPrefix ==
    [][/\ (ReadLine /\ ~IsBlank(line')
            /\ ~InList(FirstToken(line'), get_commands)
            /\ ~StartsWith(line', w_quit)
            /\ ~StartsWith(line', w_disconnect))
          => pc' = "Dispatching" /\ split' = str_split(line')
       /\ Unmatched => UnmatchedEffect]_vars

\* Witness of C11: frob was read while a transaction was open, the message was
\* printed and the loop reads again.
C11_Witness ==
    /\ pc = "Reading"
    /\ line = w_frob
    /\ split = <<w_frob>>
    /\ out = << <<"Unrecognized command">> >>
    /\ calls = <<>>
    /\ Truthy(transaction_id)

\* C14 as stated: every subscribe call the connection receives carries the
\* destination the operator typed and an ack mode that is auto or client, and
\* auto when the operator gave no ack-mode argument.
C14_SubscribeAckAutoOrClient ==
    [][\A i \in 1..Len(calls') :
          calls'[i].op = "subscribe" =>
              /\ Dispatches(w_subscribe)
              /\ calls'[i].kw.destination = split[2]
              /\ calls'[i].kw.ack \in {w_auto, w_client}
              /\ Len(split) = 2 => calls'[i].kw.ack = w_auto]_vars

\* The stats command has no argument, or one that is neither on nor off.
StatsReadsOnly == Len(split) < 2 \/ split[2] \notin {w_on, w_off}

\* C15: after stats on a listener is registered under 'stats', after stats off
\* none is, stats with no argument or an unknown one leaves the registry as it
\* was; the controller's own listener stays registered under '' at every step
\* and a stats command leaves transaction_id alone and the loop running.
C15_StatsRegistry ==
    [][/\ ConnGetListener(conn', "") = "StompCLI"
       /\ Dispatches(w_stats) =>
            /\ (Len(split) >= 2 /\ split[2] = w_on)
                  => ConnGetListener(conn', "stats") = "StatsListener"
            /\ (Len(split) >= 2 /\ split[2] = w_off)
                  => ConnGetListener(conn', "stats") = "absent"
            /\ StatsReadsOnly => conn'.listeners = conn.listeners
            /\ DOMAIN conn'.listeners \subseteq {"", "stats"}
            /\ transaction_id' = transaction_id
            /\ pc' = "Reading"]_vars

\* Witness of C15: stats off has just removed the listener that an earlier
\* stats on registered, while a transaction is open.
C15_Witness ==
    /\ pc = "Reading"
    /\ split = <<w_stats, w_off>>
    /\ Len(calls) = 1
    /\ calls[1].op = "remove_listener"
    /\ DOMAIN conn.listeners = {""}
    /\ Truthy(transaction_id)

\* The step runs help or man with a name to describe.
DescribesName == (Dispatches(w_help) \/ Dispatches(w_man)) /\ Len(split) >= 2

\* C16 as stated: help and man given a name outside the catalog print that
\* there is no such command and no usage text; given a catalog name they print
\* the usage text of that command.
C16_HelpFollowsCatalog ==
    [][DescribesName =>
          /\ Len(out') = 1
          /\ IF InList(split[2], get_commands)
             THEN out'[1] = <<"__doc__", split[2]>>
             ELSE out'[1][1] = "There is no command \"%s\""]_vars

\* Two positions of the catalog hold names bound to one function.
Aliased(i, j) == i # j /\ FunctionOf(get_commands[i]) = FunctionOf(get_commands[j])

\* No name of the catalog is private, a callback or 'c'.
NoReservedName ==
    \A i \in 1..Len(get_commands) :
        /\ ~StartsWith(get_commands[i], w_underscore)
        /\ ~StartsWith(get_commands[i], w_on_prefix)
        /\ get_commands[i] # w_c

\* A catalog name waiting to be dispatched has a handler to run.
CatalogNameDispatches ==
    (pc = "Dispatching" /\ InList(split[1], get_commands))
        => hasattr(split[1]) /\ ENABLED Dispatch

\* C17 as stated: the catalog holds no name with the callback prefix and no
\* name that aliases another (each handler under exactly one name), and every
\* name of it dispatches to a handler.
C17_CatalogNoAlias ==
    /\ NoReservedName
    /\ \A i, j \in 1..Len(get_commands) : ~Aliased(i, j)
    /\ CatalogNameDispatches

\* C17 amended: the catalog holds no name starting with _ or on_ and not the
\* name c; it holds help with its alias man and version with its alias ver,
\* and these are the only two names bound to the function of another; every
\* name of it dispatches to a handler.
C17_CatalogAliasesManVer ==
    /\ NoReservedName
    /\ \A n \in {w_help, w_man, w_version, w_ver} : InList(n, get_commands)
    /\ \A i, j \in 1..Len(get_commands) :
          Aliased(i, j) => FunctionOf(get_commands[i]) \in {w_help, w_version}
    /\ CatalogNameDispatches

\* Witness of C17: the alias man was dispatched and printed the usage text
\* that help prints.
C17_Witness ==
    /\ pc = "Reading"
    /\ split = <<w_man, w_ack>>
    /\ out = << <<"__doc__", w_ack>> >>

\* C20: no call the connection receives carries a token that an earlier commit
\* or abort call was given, whether that call returned or raised.
C20_EndedTokenNotReused ==
    [][\A i \in 1..Len(calls') :
          HasKw(calls'[i], "transaction") =>
              calls'[i].kw.transaction \notin conn.ended]_vars

\* Witness of C20: a call carries the token of a second transaction after the
\* first was ended.
C20_Witness ==
    /\ conn.ended # {}
    /\ Len(calls) = 1
    /\ calls[1].op \in {"send", "ack"}
    /\ HasKw(calls[1], "transaction")
    /\ calls[1].kw.transaction \in conn.begun \ conn.ended

\* C12 as stated: handling a message never replaces the content of a file
\* that was on disk before, except a file that a transfer wrote in this same
\* second.
C12_NoOverwrite ==
    [][\A f \in DOMAIN files :
          files'[f] # files[f] => (mtime[f] # 0 /\ mtime[f] = now)]_vars

\* The step is on_message handling the frame m, which carries a file.
DeliversFile(m) == HasHeader(m.headers, "filename") /\ on_message(m.headers, m.body)

\* Exactly one file is written, under the requested name when no file has it
\* and else under that name, a dot and the second of reception; the presenter
\* is entered with the line naming the written file.
FileSaved(m) ==
    LET requested == HeaderValue(m.headers, "filename")
        fname == IF requested \in DOMAIN files
                 THEN requested \o w_dot \o Digits(now) ELSE requested
    IN  /\ DOMAIN files' = DOMAIN files \cup {fname}
        /\ mtime'[fname] = now
        /\ \A f \in DOMAIN files \ {fname} :
              files'[f] = files[f] /\ mtime'[f] = mtime[f]
        /\ requested \in DOMAIN files => fname # requested
        /\ evpc' = "erase"
        /\ ev'.frame_type = "MESSAGE"
        /\ ev'.body = <<"Saved file: %s", fname>>

C18_RoundTrip ==
    [][\A i \in 1..Len(calls) :
          (/\ calls[i].op = "send"
           /\ HasKw(calls[i], "filename")
           /\ on_message(FileHeaders(calls[i].kw.filename), calls[i].kw.message))
          => /\ evpc' = "erase"
             /\ ev'.body[2] \in DOMAIN files'
             /\ mtime'[ev'.body[2]] = now
             /\ files'[ev'.body[2]] = files[calls[i].kw.filename]]_vars

\* Witness of C18: a two-byte file that is no UTF-8 text was sent and its
\* frame received: the written file holds the same two bytes.
C18_Witness ==
    /\ evpc = "erase"
    /\ files[w_file] = <<255, 77>>
    /\ Len(calls) = 1
    /\ calls[1].kw.message = <<"/", "0", "0", "=">>
    /\ TimestampedName(w_file, now) \in DOMAIN files
    /\ mtime[TimestampedName(w_file, now)] = now
    /\ files[TimestampedName(w_file, now)] = <<255, 77>>

\* The step is one of the event-delivery thread.
Callback ==
    \/ on_connecting
    \/ on_connected
    \/ on_disconnected
    \/ Deliver
    \/ on_error
    \/ on_receipt
    \/ print_async_step

\* C19: no step of a callback changes transaction_id or the listener
\* registry, whatever the foreground has done (a step that changes either is
\* not a step of a callback); on_error raises nothing,
\* enters the presenter with the ERROR frame and leaves main's loop where it
\* is.
C19_CallbacksLeaveSession ==
    [][/\ (transaction_id' # transaction_id \/ conn'.listeners # conn.listeners)
            => ~Callback
       /\ on_error =>
            /\ evpc' = "erase"
            /\ ev'.frame_type = "ERROR"
            /\ evlast'.raised = NoException
            /\ pc' = pc
            /\ exc' = exc]_vars

\* Witness of C19: the presenter is finishing an ERROR frame while a
\* transaction is open, the stats listener is registered and the loop reads.
C19_Witness ==
    /\ evpc = "prompt"
    /\ ev.frame_type = "ERROR"
    /\ pc = "Reading"
    /\ Truthy(transaction_id)
    /\ DOMAIN conn.listeners = {"", "stats"}

====
